---- MODULE Spec2Model ----
(***************************************************************************)
(* A model of annotate_labels.py: the LabelAnnotator object, the registry  *)
(* (girder) client it talks to, and the operations a caller can invoke on  *)
(* it.  The program is single-threaded: while the girder_id setter runs,   *)
(* no other operation runs.  The setter is modelled by one step per        *)
(* method it is made of (the setter's own body, _update_overlay_file,      *)
(* _update_annotations); pc holds the method that runs next, and no other  *)
(* operation is enabled until pc is "idle" again.                          *)
(*                                                                         *)
(* The module-global name `client` used by _update_annotations is the      *)
(* client handed to the constructor (the script binds both, lines 230 and  *)
(* 236), so both are modelled as the same registry.                        *)
(*                                                                         *)
(* overlay_file_for and annotations_for are history variables: they record *)
(* which identifier was being set when lines 89/107 and 112-125 last wrote *)
(* the two caches.  _draw_annotations' drawing and save are not modelled;  *)
(* the generator it consumes and the image it reads are.                   *)
(***************************************************************************)
EXTENDS Integers, Sequences, FiniteSets, TLC

VARIABLES
    colormap,          \* self._colormap: None or a mapping label -> color
    girder_id,         \* self._girder_id: what the girder_id getter reads
    gider_id,          \* self._gider_id: what the girder_id setter writes
    is_overlay_id,     \* self._is_overlay_id
    item_id,           \* self._item_id
    overlay_item_id,   \* self._overlay_item_id
    overlay_file,      \* self._overlay_file: None or a file descriptor
    annotations,       \* self._annotations: None or a list of records
    pc,                \* the method of the running setter that runs next
    op,                \* the operation or method that ran last
    err,               \* the exception it raised, or NoError
    ret,               \* what it returned to the caller
    calls,             \* the registry calls the running operation issued
    io,                \* what the registry held and answered in the last step
    tmpfile,           \* the NamedTemporaryFile the last operation created
    overlay_file_for,  \* the identifier being set when _overlay_file was written
    annotations_for    \* the identifier being set when _annotations was written

vars == <<colormap, girder_id, gider_id, is_overlay_id, item_id, overlay_item_id,
          overlay_file, annotations, pc, op, err, ret, calls, io, tmpfile,
          overlay_file_for, annotations_for>>

(* ------------------------------ bounds -------------------------------- *)

MaxOverlays == 2
MaxFiles == 3
MaxAnnotations == 2

(* ------------------------------ values -------------------------------- *)

\* Python's None, for the identifier-valued fields.
None == "None"

\* Python's None, for the fields that hold a record, a list or a mapping; a
\* value x of such a field is held as Some(x).
Nothing == <<>>
Some(x) == <<x>>
Get(o) == o[1]

GirderIds == {"g1", "g2"}
OverlayItemIds == {"v1"}
Labels == {"A", "B"}

NoError == "none"
ErrNoOverlay == "ValueError: no overlay for item"
ErrMultipleOverlays == "ValueError: multiple overlays, specifiy overlay"
ErrNoFiles == "ValueError: no files for overlay"
ErrMultipleFiles == "ValueError: multiple files for overlay"
ErrNoColormap == "ValueError: no color mapping set"
ErrNoColor == "ValueError: no color mapping for annotation"
ErrHttp == "girder_client.HttpError"
ErrIndex == "IndexError"
ErrAttribute == "AttributeError"
ErrImport == "ImportError"
ErrPillow == "IOError raised by Image.open"
ErrPytiff == "IOError raised by pytiff.Tiff"
ErrOpen == "IOError raised by open"

\* Strings whose prefix the code tests are sequences of characters.
MimePng == <<"i", "m", "a", "g", "e", "/", "p", "n", "g">>
MimeText == <<"t", "e", "x", "t", "/", "p", "l", "a", "i", "n">>
MimeTypes == {MimePng, MimeText}

\* str.startswith
StartsWith(s, prefix) ==
    /\ Len(s) >= Len(prefix)
    /\ SubSeq(s, 1, Len(prefix)) = prefix

\* The prefix of line 97.
ImagePrefix == <<"i", "m", "a", "g", "e">>

SeqsUpTo(S, n) == UNION {[1..k -> S] : k \in 0..n}

\* The first n elements of s: what a listing answers under parameter limit=n.
Take(s, n) == SubSeq(s, 1, IF Len(s) < n THEN Len(s) ELSE n)

(* ----------------------------- registry ------------------------------- *)

\* The ids the registry gives to the files of an item and to annotations.
FileId(i) == "f" \o ToString(i)
AnnotationId(i) == "n" \o ToString(i)

\* An overlay document of the registry.
OverlayDocs == [itemId : GirderIds, overlayItemId : OverlayItemIds]

\* The files an item can own, in the registry's listing order.
FileLists ==
    UNION {{[i \in 1..k |-> [_id |-> FileId(i), mimeType |-> m[i]]] :
                m \in [1..k -> MimeTypes]} : k \in 0..MaxFiles}

\* An item document: with or without a largeImage.fileId entry.
ItemDocs(files) ==
    {[_id |-> "item"]} \cup
    {[_id |-> "item", largeImage |-> [fileId |-> files[i]._id]] : i \in DOMAIN files}

\* The 'annotation' field of a full annotation record: with or without a name.
AnnotationBodies ==
    {[elements |-> <<>>]} \cup {[elements |-> <<>>, name |-> l] : l \in Labels}

\* The full annotation lists an item can have.
AnnotationLists ==
    UNION {{[i \in 1..k |-> [_id |-> AnnotationId(i), annotation |-> b[i]]] :
                b \in [1..k -> AnnotationBodies]} : k \in 0..MaxAnnotations}

\* A summary of the paginated listing: the record without its elements.
Summary(record) == [_id |-> record._id]

\* The status of a registry answer.  The client raises HttpError for the
\* statuses that are not a success, and returns the body otherwise.
HttpStatuses == {200, 400, 500}
CallStatuses == {200, 500}
Raises(status) == status >= 400

NoIo == [overlays |-> <<>>, files |-> <<>>, item |-> [_id |-> "item"],
         status |-> 200, summaries |-> <<>>, full |-> <<>>, fetched |-> 0,
         decoders |-> <<>>]

(* ------------------------------- Init --------------------------------- *)

\* LabelAnnotator.__init__
Init ==
    /\ colormap = Nothing
    /\ girder_id = None
    /\ gider_id = None
    /\ is_overlay_id = FALSE
    /\ item_id = None
    /\ overlay_item_id = None
    /\ overlay_file = Nothing
    /\ annotations = Nothing
    /\ pc = "idle"
    /\ op = "__init__"
    /\ err = NoError
    /\ ret = <<>>
    /\ calls = <<>>
    /\ io = NoIo
    /\ tmpfile = "none"
    /\ overlay_file_for = None
    /\ annotations_for = None

(* --------------------------- girder_id setter ------------------------- *)

\* The setter without the test of line 47: it resolves the null identifier too.
ResolveNeeded_Always(id) == TRUE

\* `if girder_id is not None` (line 47): whether the setter asks the registry.
ResolveNeeded(id) == id # None

\* Lines 55-58 without the test of line 57: the first of many overlays is taken.
CheckOverlays_FirstOfMany(overlays) ==
    IF Len(overlays) = 0 THEN ErrNoOverlay ELSE NoError

\* Lines 55-58: what the setter raises for the overlays the registry lists.
CheckOverlays(overlays) ==
    IF Len(overlays) = 0 THEN ErrNoOverlay
    ELSE IF Len(overlays) > 1 THEN ErrMultipleOverlays
    ELSE NoError

\* The overlays the registry can list for an item (GET overlay?itemId=id).
OverlayListings(id) ==
    SeqsUpTo([itemId : {id}, overlayItemId : OverlayItemIds], MaxOverlays)

\* The setter's own body, lines 43-62, up to the call of _update_overlay_file.
\* The assignment of line 43 goes to _gider_id; _girder_id is left alone.
\* An exception leaves _item_id and _overlay_item_id at None and skips the
\* two update methods.
SetterRaises(id, e, called, answered) ==
    /\ gider_id' = id
    /\ item_id' = None
    /\ overlay_item_id' = None
    /\ err' = e
    /\ calls' = <<called>>
    /\ io' = answered
    /\ pc' = "idle"

SetterResolves(id, item, overlay, called, answered) ==
    /\ gider_id' = id
    /\ item_id' = item
    /\ overlay_item_id' = overlay
    /\ err' = NoError
    /\ calls' = called
    /\ io' = answered
    /\ pc' = "_update_overlay_file"

girder_id_setter ==
    /\ pc = "idle"
    /\ op' = "girder_id.setter"
    /\ ret' = <<>>
    /\ tmpfile' = "none"
    /\ UNCHANGED <<colormap, girder_id, is_overlay_id, overlay_file, annotations,
                   overlay_file_for, annotations_for>>
    /\ \E id \in GirderIds \cup {None} :
        IF ~ResolveNeeded(id)
        THEN SetterResolves(id, None, None, <<>>, NoIo)
        ELSE IF is_overlay_id
        THEN \E status \in CallStatuses :
                IF Raises(status)
                THEN SetterRaises(id, ErrHttp, "GET overlay/id",
                                  [NoIo EXCEPT !.status = status])
                ELSE \E overlay \in OverlayDocs :
                        SetterResolves(id, overlay.itemId, overlay.overlayItemId,
                                       <<"GET overlay/id">>,
                                       [NoIo EXCEPT !.overlays = <<overlay>>])
        ELSE \E status \in CallStatuses :
                IF Raises(status)
                THEN SetterRaises(id, ErrHttp, "GET overlay",
                                  [NoIo EXCEPT !.status = status])
                ELSE \E overlays \in OverlayListings(id) :
                        LET answered == [NoIo EXCEPT !.overlays = overlays] IN
                        IF CheckOverlays(overlays) # NoError
                        THEN SetterRaises(id, CheckOverlays(overlays),
                                          "GET overlay", answered)
                        ELSE SetterResolves(id, id, overlays[1].overlayItemId,
                                            <<"GET overlay">>, answered)

(* ------------------------- _update_overlay_file ----------------------- *)

\* What the registry answered so far in the running setter: the overlays of
\* its own body stay on record while the update methods run.
Kept == [NoIo EXCEPT !.overlays = io.overlays]

\* parameters={'limit': 2} (line 93)
ListLimit == 2

\* Line 97: o['mimeType'].startswith('image')
IsImage(file) == StartsWith(file.mimeType, ImagePrefix)

\* Lines 100-103: overlay_item['largeImage']['fileId'], None on KeyError.
LargeImageFileId(item) ==
    IF "largeImage" \in DOMAIN item THEN item.largeImage.fileId ELSE None

\* Line 104: the files whose _id is not file_id.
ExcludeFile(files, file_id) ==
    LET Other(f) == f._id # file_id IN SelectSeq(files, Other)

\* An exception of _update_overlay_file ends the setter; _overlay_file keeps
\* the value it had.
OverlayFileRaises(e, called, answered) ==
    /\ err' = e
    /\ calls' = calls \o called
    /\ io' = answered
    /\ pc' = "idle"
    /\ UNCHANGED <<overlay_file, overlay_file_for>>

OverlayFileReturns(file, called, answered) ==
    /\ err' = NoError
    /\ calls' = calls \o called
    /\ io' = answered
    /\ pc' = "_update_annotations"
    /\ overlay_file' = file
    /\ overlay_file_for' = gider_id

\* Lines 105-107, for the candidates left after the filters.
SelectOverlayFile(candidates, called, answered) ==
    IF Len(candidates) > 1
    THEN OverlayFileRaises(ErrMultipleFiles, called, answered)
    ELSE IF Len(candidates) = 0
    THEN OverlayFileRaises(ErrIndex, called, answered)
    ELSE OverlayFileReturns(Some(candidates[1]), called, answered)

update_overlay_file ==
    /\ pc = "_update_overlay_file"
    /\ op' = "_update_overlay_file"
    /\ UNCHANGED <<colormap, girder_id, gider_id, is_overlay_id, item_id,
                   overlay_item_id, annotations, ret, tmpfile, annotations_for>>
    /\ IF overlay_item_id = None
       THEN OverlayFileReturns(Nothing, <<>>, Kept)
       ELSE \E files \in FileLists, status \in CallStatuses :
            LET listed == Take(files, ListLimit)
                images == SelectSeq(listed, IsImage)
                answered == [Kept EXCEPT !.files = files, !.status = status]
            IN  IF Raises(status)
                THEN OverlayFileRaises(ErrHttp, <<"GET item/id/files">>,
                                       [Kept EXCEPT !.status = status])
                ELSE IF Len(listed) = 0
                THEN OverlayFileRaises(ErrNoFiles, <<"GET item/id/files">>, answered)
                ELSE IF Len(images) > 1
                THEN \E istatus \in CallStatuses :
                        IF Raises(istatus)
                        THEN OverlayFileRaises(ErrHttp,
                                <<"GET item/id/files", "GET item/id">>,
                                [answered EXCEPT !.status = istatus])
                        ELSE \E item \in ItemDocs(files) :
                                SelectOverlayFile(
                                    ExcludeFile(images, LargeImageFileId(item)),
                                    <<"GET item/id/files", "GET item/id">>,
                                    [answered EXCEPT !.item = item])
                ELSE SelectOverlayFile(images, <<"GET item/id/files">>, answered)

(* -------------------------- _update_annotations ----------------------- *)

\* Line 118 without the test of the status: every HttpError is recovered from.
IsClientError_AnyHttpError(status) == Raises(status)

\* `e.status == 400` (line 118): the error the fallback recovers from.
IsClientError(status) == status = 400

\* Lines 121-125: one full fetch per summary, appended in the listing's order.
FetchEach(summaries, full) ==
    [i \in 1..Len(summaries) |-> full[summaries[i]._id]]

\* What GET annotation/<id> answers for the records the registry holds.
FullFetch(records) ==
    [id \in {records[i]._id : i \in DOMAIN records} |->
        (CHOOSE r \in {records[i] : i \in DOMAIN records} : r._id = id)]

Summaries(records) == [i \in DOMAIN records |-> Summary(records[i])]

AnnotationsEnd(e, called, answered) ==
    /\ err' = e
    /\ calls' = calls \o called
    /\ io' = answered
    /\ pc' = "idle"

update_annotations ==
    /\ pc = "_update_annotations"
    /\ op' = "_update_annotations"
    /\ UNCHANGED <<colormap, girder_id, gider_id, is_overlay_id, item_id,
                   overlay_item_id, overlay_file, ret, tmpfile, overlay_file_for>>
    /\ IF item_id = None
       THEN /\ annotations' = Nothing
            /\ annotations_for' = gider_id
            /\ AnnotationsEnd(NoError, <<>>, Kept)
       ELSE \E status \in HttpStatuses :
            LET primary == [Kept EXCEPT !.status = status] IN
            IF ~Raises(status)
            THEN \E records \in AnnotationLists :
                    /\ annotations' = Some(records)
                    /\ annotations_for' = gider_id
                    /\ AnnotationsEnd(NoError, <<"GET annotation/item/id">>, primary)
            ELSE IF IsClientError(status)
            THEN \E listing \in CallStatuses :
                    IF Raises(listing)
                    THEN /\ UNCHANGED <<annotations, annotations_for>>
                         /\ AnnotationsEnd(ErrHttp,
                                <<"GET annotation/item/id", "GET annotation">>, primary)
                    ELSE \E records \in AnnotationLists :
                         \E n \in 0..Len(records) :
                            LET summaries == Summaries(records)
                                full == FullFetch(records)
                                failed == n < Len(records)
                                fetches == [i \in 1..(IF failed THEN n + 1 ELSE n)
                                                |-> "GET annotation/id"]
                            IN  /\ annotations' =
                                        Some(FetchEach(SubSeq(summaries, 1, n), full))
                                /\ annotations_for' = gider_id
                                /\ AnnotationsEnd(
                                        IF failed THEN ErrHttp ELSE NoError,
                                        <<"GET annotation/item/id", "GET annotation">>
                                            \o fetches,
                                        [primary EXCEPT !.summaries = summaries,
                                                        !.full = full,
                                                        !.fetched = n])
            ELSE /\ UNCHANGED <<annotations, annotations_for>>
                 /\ AnnotationsEnd(ErrHttp, <<"GET annotation/item/id">>, primary)

(* ------------------------- the other operations ----------------------- *)

\* What each colormap file holds; "" stands for a filename that is falsy and
\* "absent.json" for one that open() cannot read.
ColormapFiles == {"", "full.json", "partial.json", "absent.json"}

ColormapContent(filename) ==
    IF filename = "full.json" THEN [A |-> "red", B |-> "blue", C |-> "green"]
    ELSE [A |-> "red"]

Operation(name, e, returned, called, answered, file) ==
    /\ pc = "idle"
    /\ tmpfile' = file
    /\ pc' = "idle"
    /\ op' = name
    /\ err' = e
    /\ ret' = returned
    /\ calls' = called
    /\ io' = answered

\* colormap setter, lines 28-35
colormap_setter ==
    \E filename \in ColormapFiles :
        /\ IF filename = ""
           THEN colormap' = Nothing /\ Operation("colormap.setter", NoError, <<>>, <<>>, NoIo, "none")
           ELSE IF filename = "absent.json"
           THEN UNCHANGED colormap /\ Operation("colormap.setter", ErrOpen, <<>>, <<>>, NoIo, "none")
           ELSE /\ colormap' = Some(ColormapContent(filename))
                /\ Operation("colormap.setter", NoError, <<>>, <<>>, NoIo, "none")
        /\ UNCHANGED <<girder_id, gider_id, is_overlay_id, item_id, overlay_item_id,
                       overlay_file, annotations, overlay_file_for,
                       annotations_for>>

\* is_overlay_id setter, lines 71-73
is_overlay_id_setter ==
    \E b \in BOOLEAN :
        /\ is_overlay_id' = b
        /\ Operation("is_overlay_id.setter", NoError, <<>>, <<>>, NoIo, "none")
        /\ UNCHANGED <<colormap, girder_id, gider_id, item_id, overlay_item_id,
                       overlay_file, annotations, overlay_file_for,
                       annotations_for>>

\* girder_id getter, lines 37-39
girder_id_getter ==
    /\ Operation("girder_id.getter", NoError, <<girder_id>>, <<>>, NoIo, "none")
    /\ UNCHANGED <<colormap, girder_id, gider_id, is_overlay_id, item_id,
                   overlay_item_id, overlay_file, annotations, overlay_file_for,
                       annotations_for>>

(* ------------------------- _annotations_iterator ---------------------- *)

\* keyfunc, lines 137-140: the record's name, None when it has none.
KeyFunc(record) ==
    IF "name" \in DOMAIN record.annotation THEN record.annotation.name ELSE None

\* itertools.groupby(records, keyfunc): one group per maximal run of
\* consecutive records with equal keys, in order.
RECURSIVE GroupBy(_)
GroupBy(records) ==
    IF records = <<>> THEN <<>>
    ELSE LET first == Head(records)
             rest == GroupBy(Tail(records))
         IN  IF rest # <<>> /\ rest[1].key = KeyFunc(first)
             THEN <<[key |-> KeyFunc(first), group |-> <<first>> \o rest[1].group]>>
                    \o Tail(rest)
             ELSE <<[key |-> KeyFunc(first), group |-> <<first>>]>> \o rest

\* The loop of lines 143-150 over the groups: what it yields until it ends
\* or raises.
RECURSIVE YieldGroups(_, _)
YieldGroups(groups, colors) ==
    IF groups = <<>> THEN [yielded |-> <<>>, err |-> NoError]
    ELSE IF Head(groups).key = None THEN YieldGroups(Tail(groups), colors)
    ELSE IF Head(groups).key \notin DOMAIN colors
    THEN [yielded |-> <<>>, err |-> ErrNoColor]
    ELSE LET rest == YieldGroups(Tail(groups), colors)
         IN  [yielded |-> <<[color |-> colors[Head(groups).key],
                             group |-> Head(groups).group]>> \o rest.yielded,
              err |-> rest.err]

\* _annotations_iterator, lines 130-150, consumed to its end.
AnnotationsIterator(annots, colors) ==
    IF annots = Nothing THEN [yielded |-> <<>>, err |-> NoError]
    ELSE IF colors = Nothing THEN [yielded |-> <<>>, err |-> ErrNoColormap]
    ELSE YieldGroups(GroupBy(Get(annots)), Get(colors))

\* The annotations property, lines 152-154, with its generator consumed as
\* _draw_annotations consumes it (line 160).
annotations_getter ==
    /\ LET result == AnnotationsIterator(annotations, colormap)
       IN  Operation("annotations", result.err, result.yielded, <<>>, NoIo, "none")
    /\ UNCHANGED <<colormap, girder_id, gider_id, is_overlay_id, item_id,
                   overlay_item_id, overlay_file, annotations, overlay_file_for,
                       annotations_for>>

(* ------------------------- image_file and image ----------------------- *)

\* The image property, lines 190-207, with the image_file property it reads
\* (lines 181-188).  tmpfile is "open" from NamedTemporaryFile (line 186) until
\* image_file.close() (line 205), which deletes the file.  No other statement
\* closes it: when the operation ends by an exception the file is still open
\* (the traceback keeps the frame, and with it the file object, alive).
image_getter ==
    /\ UNCHANGED <<colormap, girder_id, gider_id, is_overlay_id, item_id,
                   overlay_item_id, overlay_file, annotations, overlay_file_for,
                   annotations_for>>
    /\ IF overlay_file = Nothing
       THEN \* image_file returns None; image_file.name raises (line 195)
            Operation("image", ErrAttribute, <<>>, <<>>, NoIo, "none")
       ELSE \E download \in CallStatuses :
            IF Raises(download)
            THEN Operation("image", ErrHttp, <<>>, <<"downloadFile">>,
                           [NoIo EXCEPT !.status = download], "open")
            ELSE \E pillow \in BOOLEAN :
                 IF pillow
                 THEN Operation("image", NoError, <<"Image.open">>,
                                <<"downloadFile">>,
                                [NoIo EXCEPT !.decoders = <<"Image.open">>], "closed")
                 ELSE \E importable \in BOOLEAN :
                      IF ~importable
                      THEN Operation("image", ErrImport, <<>>, <<"downloadFile">>,
                                     [NoIo EXCEPT !.decoders = <<"Image.open">>],
                                     "open")
                      ELSE \E pytiff \in BOOLEAN :
                           LET both == [NoIo EXCEPT
                                            !.decoders = <<"Image.open", "pytiff.Tiff">>]
                           IN  IF pytiff
                               THEN Operation("image", NoError, <<"pytiff.Tiff">>,
                                              <<"downloadFile">>, both, "closed")
                               ELSE \* the bare raise of line 203 re-raises the
                                    \* exception being handled: pytiff's
                                    Operation("image", ErrPytiff, <<>>,
                                              <<"downloadFile">>, both, "open")

(* ---------------------------- specification --------------------------- *)

Next ==
    \/ colormap_setter
    \/ is_overlay_id_setter
    \/ girder_id_setter
    \/ update_overlay_file
    \/ update_annotations
    \/ girder_id_getter
    \/ annotations_getter
    \/ image_getter

Spec == Init /\ [][Next]_vars

\* A caller that only sets the overlay-mode flag and the identifier, and
\* reads the identifier back: the operations of the resolution pipeline.
NextIdentifier ==
    \/ is_overlay_id_setter
    \/ girder_id_setter
    \/ update_overlay_file
    \/ update_annotations
    \/ girder_id_getter

SpecIdentifier == Init /\ [][NextIdentifier]_vars

(* ------------------- _annotations_iterator on its own ----------------- *)

\* _annotations_iterator is a function of _annotations and _colormap alone.
\* SpecGroup starts where the setter has just stored an annotation list the
\* registry answered for item "g1" (or from the fresh object), and applies
\* the iterator under each color map.
MaxRun == 5
GroupLabels == {"A", "B", "C"}

GroupBodies ==
    {[elements |-> <<>>]} \cup {[elements |-> <<>>, name |-> l] : l \in GroupLabels}

GroupInputs ==
    UNION {{[i \in 1..k |-> [_id |-> AnnotationId(i), annotation |-> b[i]]] :
                b \in [1..k -> GroupBodies]} : k \in 0..MaxRun}

InitGroup ==
    \/ Init
    \/ /\ colormap = Nothing
       /\ girder_id = None
       /\ gider_id = "g1"
       /\ is_overlay_id = FALSE
       /\ item_id = "g1"
       /\ overlay_item_id = "v1"
       /\ overlay_file = Some([_id |-> FileId(1), mimeType |-> MimePng])
       /\ annotations \in {Some(records) : records \in GroupInputs}
       /\ pc = "idle"
       /\ op = "_update_annotations"
       /\ err = NoError
       /\ ret = <<>>
       /\ calls = <<"GET overlay", "GET item/id/files", "GET annotation/item/id">>
       /\ io = [NoIo EXCEPT !.overlays = <<[itemId |-> "g1", overlayItemId |-> "v1"]>>]
       /\ tmpfile = "none"
       /\ overlay_file_for = "g1"
       /\ annotations_for = "g1"

NextGroup ==
    \/ colormap_setter
    \/ annotations_getter

SpecGroup == InitGroup /\ [][NextGroup]_vars

(* ------------------------------- claims -------------------------------- *)

\* The girder_id setter has ended, by returning or by raising.
SetEnded ==
    /\ pc = "idle"
    /\ op \in {"girder_id.setter", "_update_overlay_file", "_update_annotations"}

\* C1: with the overlay-mode flag false, a set of a non-null identifier whose
\* overlay listing the registry answers raises 'no overlay for item' when the
\* listing is empty, raises 'multiple overlays' when it holds more than one
\* overlay, and ends without an error only when it holds exactly one.
C1_OverlayCountDecides ==
    (/\ SetEnded
     /\ ~is_overlay_id
     /\ gider_id # None
     /\ ~(op = "girder_id.setter" /\ err = ErrHttp))
    => /\ Len(io.overlays) = 0 => (err = ErrNoOverlay /\ op = "girder_id.setter")
       /\ Len(io.overlays) > 1 => (err = ErrMultipleOverlays /\ op = "girder_id.setter")
       /\ err = NoError => Len(io.overlays) = 1

C1_Witness ==
    /\ SetEnded
    /\ ~is_overlay_id
    /\ gider_id # None
    /\ Len(io.overlays) > 1
    /\ err = ErrMultipleOverlays

\* C2: once a set has ended, in whatever way, the cached overlay file and the
\* cached annotations are not those written while an earlier identifier was
\* being set.
C2_CachesNeverStale ==
    SetEnded =>
        /\ overlay_file # Nothing => overlay_file_for = gider_id
        /\ annotations # Nothing => annotations_for = gider_id

\* C3: a set of the null identifier ends with item id, overlay item id,
\* overlay file and annotations all null, without an error and without a
\* registry call, whatever the overlay-mode flag.
C3_NullClearsWithoutCall ==
    (SetEnded /\ gider_id = None)
    => /\ item_id = None
       /\ overlay_item_id = None
       /\ overlay_file = Nothing
       /\ annotations = Nothing
       /\ calls = <<>>
       /\ err = NoError

C3_Witness ==
    /\ SetEnded
    /\ gider_id = None
    /\ is_overlay_id
    /\ op = "_update_annotations"
    /\ annotations = Nothing

\* Whether the running operation issued the paginated summary listing.
FallbackTaken == \E i \in DOMAIN calls : calls[i] = "GET annotation"

\* C4: the annotation fetch issues the summary listing exactly when the
\* primary call failed with status 400; another failure of the primary call
\* is raised; and when the fallback ends without an error the stored list is,
\* summary by summary and in the listing's order, the full fetch of the
\* summary's id.
C4_FallbackOnClientError ==
    (pc = "idle" /\ op = "_update_annotations" /\ item_id # None)
    => /\ FallbackTaken <=> io.status = 400
       /\ (Raises(io.status) /\ io.status # 400) => err = ErrHttp
       /\ (FallbackTaken /\ err = NoError) =>
            /\ annotations # Nothing
            /\ Len(Get(annotations)) = Len(io.summaries)
            /\ \A i \in DOMAIN io.summaries :
                    Get(annotations)[i] = io.full[io.summaries[i]._id]

C4_Witness ==
    /\ pc = "idle"
    /\ op = "_update_annotations"
    /\ io.status = 400
    /\ err = NoError
    /\ Len(io.summaries) >= 2
    /\ Len(Get(annotations)) = Len(io.summaries)

\* C5: for every overlay item whose file listing the registry answers, file
\* location raises 'no files' when the item owns no file, raises 'multiple
\* files' when more than one image-typed file of the item is left after the
\* designated large-image file is excluded, and on success selects an
\* image-typed file that is the only candidate left.
C5_OneFileOrError ==
    (/\ op = "_update_overlay_file"
     /\ overlay_item_id # None
     /\ err # ErrHttp)
    => LET images == SelectSeq(io.files, IsImage)
           left == ExcludeFile(images, LargeImageFileId(io.item))
       IN  /\ Len(io.files) = 0 => err = ErrNoFiles
           /\ Len(left) > 1 => err = ErrMultipleFiles
           /\ err = NoError => /\ overlay_file # Nothing
                               /\ IsImage(Get(overlay_file))
                               /\ left = <<Get(overlay_file)>>

\* The records that have a name.
HasName(record) == "name" \in DOMAIN record.annotation

\* C6: under a color map with an entry for every label, consuming the grouped
\* annotations yields one group per run of equal labels in source order,
\* where records without a label are dropped and do not split a run.
C6_UnlabeledDoesNotSplit ==
    (/\ pc = "idle"
     /\ op = "annotations"
     /\ annotations # Nothing
     /\ colormap # Nothing
     /\ \A i \in DOMAIN Get(annotations) :
            HasName(Get(annotations)[i]) =>
                Get(annotations)[i].annotation.name \in DOMAIN Get(colormap))
    => LET runs == GroupBy(SelectSeq(Get(annotations), HasName))
       IN  /\ err = NoError
           /\ ret = [i \in DOMAIN runs |->
                        [color |-> Get(colormap)[runs[i].key], group |-> runs[i].group]]

\* C7: with the color map unset, consuming the grouped annotations raises the
\* 'no color mapping set' error and yields no group, also when the
\* annotations are null; with the color map set, it raises the 'no color
\* mapping for annotation' error when a label of the annotations has no entry.
C7_ColormapRequired ==
    (pc = "idle" /\ op = "annotations")
    => /\ colormap = Nothing => (err = ErrNoColormap /\ ret = <<>>)
       /\ (/\ colormap # Nothing
           /\ annotations # Nothing
           /\ \E i \in DOMAIN Get(annotations) :
                /\ HasName(Get(annotations)[i])
                /\ Get(annotations)[i].annotation.name \notin DOMAIN Get(colormap))
          => err = ErrNoColor

\* C8: when the image operation has ended, in whatever way, the temporary
\* file it created is no longer open.
C8_TempFileReleased ==
    (pc = "idle" /\ op = "image") => tmpfile # "open"

\* C9: the image operation tries Image.open first and pytiff only after
\* Image.open failed; a decode error is raised only when both decoders
\* failed, and the error raised is then the one Image.open raised.
C9_OriginalDecodeError ==
    (pc = "idle" /\ op = "image")
    => /\ io.decoders \in {<<>>, <<"Image.open">>, <<"Image.open", "pytiff.Tiff">>}
       /\ err \in {ErrPillow, ErrPytiff} =>
            /\ io.decoders = <<"Image.open", "pytiff.Tiff">>
            /\ err = ErrPillow

\* C10: the girder_id getter returns the value most recently assigned by the
\* setter (the value line 43 stores), and None only if that value is None.
C10_GetterReturnsAssigned ==
    (pc = "idle" /\ op = "girder_id.getter") => ret = <<gider_id>>

====
